---- MODULE Spec2Model ----
(***************************************************************************)
(* State-machine model of the chat relay in server.js: the registry of     *)
(* connected users, the chat-room records, the group directory, the        *)
(* socket.io room membership, and the deferred re-check timers.  Each      *)
(* socket event handler is one action.                                     *)
(*                                                                         *)
(* Strings that the code inspects are sequences of one-character tokens,   *)
(* so that trim(), startsWith('group-'), includes('-') and split('-') are  *)
(* computed and not assumed.  Wall-clock fields (joinedAt, createdAt,      *)
(* timestamps) and the members copy kept in chatRooms are never read by    *)
(* the server and are left out.  A socket id names one connection; an id   *)
(* whose connection has closed and left no trace may name a new one.       *)
(* A socket that the server is disconnecting stays in the namespace and    *)
(* in its rooms until its transport has closed ("closing"); it neither     *)
(* sends events nor receives packets in that state.                        *)
(***************************************************************************)
EXTENDS Integers, Sequences, FiniteSets, TLC

\* ------------------------------------------------------------------ bounds
MaxTimers == 1      \* pending deferred re-checks kept at once
MaxHistory == 1     \* messages kept in one chatRooms record
MaxSent == MaxHistory + 1   \* numbered messages emitted by the clients

\* ------------------------------------------------------------- input sets
SP == " "
Sockets == {"s1", "s2", "s3"}
SocketOrder == <<"s1", "s2", "s3">>
Users == {"A", "B"}
DashedId == "x-y"   \* a user id with a '-' in it, as uuid.v4() makes them
NoSocket == ""
NoUserId == ""
DeletedMark == "deleted"

\* chat ids as token sequences: "group-g", "team", "A-B", "A-x-y", "B-A"
GroupId == <<"group", "-", "g">>
TeamId == <<"team">>
DirectAB == <<"A", "-", "B">>
DirectAX == <<"A", "-", "x", "-", "y">>
DirectBA == <<"B", "-", "A">>
NoChat == <<>>
ChatIds == {GroupId, TeamId, DirectAB, DirectAX, DirectBA}

NameA == <<"a">>
PaddedA == <<SP, "a">>
PaddedB == <<SP, "b">>
PaddedT == <<SP, "t">>
Blank == <<SP>>
Empty == <<>>
DirectChatName == <<"D">>
UnknownUser == <<"U">>
UnknownId == "unknown"

\* ------------------------------------------------------ string operations
RECURSIVE TrimLeft(_)
\* String.prototype.trim, leading part
TrimLeft(n) ==
  IF n # <<>> /\ Head(n) = SP THEN TrimLeft(Tail(n)) ELSE n

RECURSIVE TrimRight(_)
\* String.prototype.trim, trailing part
TrimRight(n) ==
  IF n # <<>> /\ n[Len(n)] = SP THEN TrimRight(SubSeq(n, 1, Len(n) - 1)) ELSE n

Trim(n) == TrimRight(TrimLeft(n))
\* variant: only a missing username is refused, a whitespace-only one passes
IsBlank_Missing(n) == n = <<>>


\* !name || name.trim() === ''
IsBlank(n) == n = <<>> \/ Trim(n) = <<>>

\* chatId.startsWith('group-')
StartsWithGroup(c) == Len(c) >= 2 /\ c[1] = "group" /\ c[2] = "-"

\* chatId.includes('-')
IncludesDash(c) == \E i \in DOMAIN c : c[i] = "-"

\* chatId.split('-'), for ids whose parts are single tokens
SplitDash(c) == {c[i] : i \in {j \in DOMAIN c : c[j] # "-"}}

\* a user id as a token sequence
Tokens(u) == IF u = DashedId THEN <<"x", "-", "y">> ELSE <<u>>

\* the user ids in the order of String comparison by code units
IdOrder == <<"A", "B", DashedId>>

\* a comes before b in Array.prototype.sort()
SortsBefore(a, b) ==
  \E i, j \in DOMAIN IdOrder : IdOrder[i] = a /\ IdOrder[j] = b /\ i <= j

\* variant: the two ids are joined as they come
DirectId_Unsorted(a, b) == Tokens(a) \o <<"-">> \o Tokens(b)

\* [userId, targetUser.id].sort().join('-')
DirectId(a, b) ==
  IF SortsBefore(a, b) THEN Tokens(a) \o <<"-">> \o Tokens(b)
  ELSE Tokens(b) \o <<"-">> \o Tokens(a)

\* -------------------------------------------------------------------- state
VARIABLES
  sockets,         \* transport state of each socket id: "closed", "open", "closing"
  connectedUsers,  \* Map socket id -> [id, username]
  chatRooms,       \* Map chat id -> [isGroup, name, messages]
  groupChats,      \* Map chat id -> [name, createdBy, members]
  rooms,           \* io.sockets.adapter.rooms: chat id -> set of socket ids
  timers,          \* pending setTimeout re-checks, in firing order
  groupHistory,    \* history: chat id -> userId of the event that created the
                   \* group now stored, or DeletedMark once deleteGroup removed it
  ev,              \* the event handled by the last step
  out,             \* the emissions of the last step, in order
  sent,            \* history: how many numbered messages the clients emitted
  received         \* history: socket id -> the numbered messages its present
                   \* connection was sent, in the order of their arrival

vars == <<sockets, connectedUsers, chatRooms, groupChats, rooms, timers,
          groupHistory, ev, out, sent, received>>

\* sockets of the namespace that can still send and receive
Live == {s \in Sockets : sockets[s] = "open"}

\* Map.delete(key)
MapDelete(m, k) == [x \in (DOMAIN m) \ {k} |-> m[x]]

\* Map.set(key, value)
MapSet(m, k, v) == [x \in (DOMAIN m) \cup {k} |-> IF x = k THEN v ELSE m[x]]

\* connectedUsers.forEach(... if (user.id === id) memberSocketId = socketId)
SocketsOf(cu, u) == {s \in DOMAIN cu : cu[s].id = u}

FindSocketId(cu, u) ==
  IF SocketsOf(cu, u) = {} THEN NoSocket ELSE CHOOSE s \in SocketsOf(cu, u) : TRUE

\* one emitted packet
Emit(to, event, chatId, data) ==
  [to |-> to, event |-> event, chatId |-> chatId, data |-> data]

\* how many packets of one event type the last step sent to socket t
Deliveries(o, event, t) ==
  Cardinality({i \in DOMAIN o : o[i].event = event /\ o[i].to = t})

\* socket.broadcast.emit / io.emit: one packet per receiving socket
EmitAll(targets, event, chatId, data) ==
  LET order == SelectSeq(SocketOrder, LAMBDA t : t \in targets)
  IN  [i \in DOMAIN order |-> Emit(order[i], event, chatId, data)]
\* variant: no member is skipped
Unicast_All(cu, members, exceptId, event, chatId, data) ==
  LET hit == SelectSeq(members, LAMBDA m : FindSocketId(cu, m.id) # NoSocket)
  IN  [i \in DOMAIN hit |-> Emit(FindSocketId(cu, hit[i].id), event, chatId, data)]


\* members.forEach(member => ... memberSocket.emit(event, data)), skipping
\* the members whose id is exceptId and those without a connected socket
Unicast(cu, members, exceptId, event, chatId, data) ==
  LET hit == SelectSeq(members,
               LAMBDA m : m.id # exceptId /\ FindSocketId(cu, m.id) # NoSocket)
  IN  [i \in DOMAIN hit |-> Emit(FindSocketId(cu, hit[i].id), event, chatId, data)]

\* variant: the members' sockets are looked up but never joined
JoinMembers_Skip(cu, rm, chatId, members) == rm

\* members.forEach(member => ... memberSocket.join(chatId))
JoinMembers(cu, rm, chatId, members) ==
  [rm EXCEPT ![chatId] =
     @ \cup ({FindSocketId(cu, members[i].id) : i \in DOMAIN members} \ {NoSocket})]

\* the onlineUsers list built from connectedUsers
OnlineUsers(cu) ==
  {[id |-> cu[s].id, username |-> Trim(cu[s].username)] :
     s \in {x \in DOMAIN cu : ~IsBlank(cu[x].username)}}

\* socket leaves every room when it closes
LeaveAll(rm, s) == [c \in DOMAIN rm |-> rm[c] \ {s}]

\* the event of a step; group: a joinChat carrying a group payload; name: the
\* username field of a join, message or typing payload, the newUsername of a
\* usernameChange; groupName, members: those fields of a joinChat payload;
\* reason: the reason socket.io gives for a disconnect; target: the user a
\* client opened a direct chat with
Event(type, s, chatId, userId) ==
  [type |-> type, socket |-> s, chatId |-> chatId, userId |-> userId, group |-> FALSE,
   name |-> <<>>, groupName |-> <<>>, members |-> <<>>, reason |-> "",
   target |-> NoUserId]

Init ==
  /\ sockets = [s \in Sockets |-> "closed"]
  /\ connectedUsers = <<>>
  /\ chatRooms = <<>>
  /\ groupChats = <<>>
  /\ rooms = [c \in ChatIds |-> {}]
  /\ timers = <<>>
  /\ groupHistory = <<>>
  /\ ev = Event("init", NoSocket, NoChat, NoUserId)
  /\ out = <<>>
  /\ sent = 0
  /\ received = [t \in Sockets |-> <<>>]

\* ------------------------------------------------------------------ actions
\* io.on('connection')
Connect(s) ==
  /\ sockets[s] = "closed"
  /\ sockets' = [sockets EXCEPT ![s] = "open"]
  /\ ev' = Event("connection", s, NoChat, NoUserId)
  /\ received' = [received EXCEPT ![s] = <<>>]
  /\ UNCHANGED sent
  /\ out' = <<>>
  /\ UNCHANGED <<connectedUsers, chatRooms, groupChats, rooms, timers, groupHistory>>
\* variant: every stored group is handed to the joining user
UserGroups_All(gc, userId) == DOMAIN gc


\* the groups handed to a joining user
UserGroups(gc, userId) ==
  {g \in DOMAIN gc : \E i \in DOMAIN gc[g].members : gc[g].members[i].id = userId}

\* variant: a joining user is not put into the rooms of their groups
JoinUserGroups_Skip(rm, gc, s, userId) == rm

\* socket.join(group.chatId) for each of the user's groups
JoinUserGroups(rm, gc, s, userId) ==
  [c \in DOMAIN rm |-> IF c \in UserGroups(gc, userId) THEN rm[c] \cup {s} ELSE rm[c]]
\* variant: the takeover removes the entry of the joining socket instead of
\* the entry of the socket that held the userId
EvictExisting_Self(cu, s, userId) == MapDelete(cu, s)


\* variant: the takeover leaves the old entry in the registry
EvictExisting_Keep(cu, s, userId) == cu

\* the old socket removed from the registry on a takeover
EvictExisting(cu, s, userId) ==
  LET existing == FindSocketId(cu, userId)
  IN  IF existing # NoSocket /\ existing # s THEN MapDelete(cu, existing) ELSE cu

\* socket.on('join'); closeNow: oldSocket.disconnect(true) completes inside
\* the handler (its 'disconnect' handler finds no registry entry) or later;
\* the choice exists only when there is an old socket to disconnect
Join(s, userId, username, closeNow) ==
  /\ sockets[s] = "open"
  /\ closeNow \/ FindSocketId(connectedUsers, userId) \notin {NoSocket, s}
  /\ ev' = [Event("join", s, NoChat, userId) EXCEPT !.name = username]
  /\ UNCHANGED <<sent, received>>
  /\ IF userId = NoUserId \/ IsBlank(username)
     THEN /\ out' = <<Emit(s, "error", NoChat, "Invalid user data")>>
          /\ UNCHANGED <<sockets, connectedUsers, chatRooms, groupChats, rooms,
                         timers, groupHistory>>
     ELSE LET existing == FindSocketId(connectedUsers, userId)
              takeover == existing # NoSocket /\ existing # s
              sk == IF takeover
                    THEN [sockets EXCEPT ![existing] =
                            IF closeNow THEN "closed" ELSE "closing"]
                    ELSE sockets
              rm1 == IF takeover /\ closeNow THEN LeaveAll(rooms, existing) ELSE rooms
              cu == MapSet(EvictExisting(connectedUsers, s, userId), s,
                           [id |-> userId, username |-> Trim(username)])
              live == {t \in Sockets : sk[t] = "open"}
              groups == UserGroups(groupChats, userId)
          IN  /\ sockets' = sk
              /\ connectedUsers' = cu
              /\ rooms' = JoinUserGroups(rm1, groupChats, s, userId)
              /\ out' = EmitAll(live \ {s}, "userJoined", NoChat, Trim(username))
                        \o EmitAll(live, "onlineUsers", NoChat, OnlineUsers(cu))
                        \o (IF groups # {}
                            THEN <<Emit(s, "availableGroups", NoChat, groups)>>
                            ELSE <<>>)
              /\ UNCHANGED <<chatRooms, groupChats, timers, groupHistory>>

\* variant: the disconnect handler resets the registry
Unregister_Clear(cu, s) == <<>>

\* variant: the disconnect handler leaves the entry in the registry
Unregister_Keep(cu, s) == cu

\* connectedUsers.delete(socket.id)
Unregister(cu, s) == MapDelete(cu, s)

\* socket.on('disconnect'), run when the transport of s closes
OnDisconnect(s, reason) ==
  /\ sockets' = [sockets EXCEPT ![s] = "closed"]
  /\ rooms' = LeaveAll(rooms, s)
  /\ ev' = [Event("disconnect", s, NoChat, NoUserId) EXCEPT !.reason = reason]
  /\ received' = [received EXCEPT ![s] = <<>>]
  /\ UNCHANGED sent
  /\ connectedUsers' = Unregister(connectedUsers, s)
  /\ IF s \in DOMAIN connectedUsers /\ ~IsBlank(connectedUsers[s].username)
     THEN out' = EmitAll(Live \ {s}, "userLeft", NoChat, Trim(connectedUsers[s].username))
                 \o EmitAll(Live \ {s}, "onlineUsers", NoChat,
                            OnlineUsers(Unregister(connectedUsers, s)))
     ELSE out' = <<>>
  /\ UNCHANGED <<chatRooms, groupChats, timers, groupHistory>>

\* the client closes an open socket
Disconnect(s) ==
  /\ sockets[s] = "open"
  /\ OnDisconnect(s, "transport close")

\* a forced disconnect that was still draining completes
FinishClose(s) ==
  /\ sockets[s] = "closing"
  /\ OnDisconnect(s, "server namespace disconnect")

\* variant: the members are stored as they come
ValidMembers_All(members) == members

\* members.filter(member => member && member.username && ... trim() !== '')
ValidMembers(members) == SelectSeq(members, LAMBDA m : ~IsBlank(m.username))

\* validMembers.map(member => ({ id, username: username.trim() }))
StoredMembers(vm) ==
  [i \in DOMAIN vm |-> [id |-> vm[i].id, username |-> Trim(vm[i].username)]]
\* variant: the first member of the payload is recorded as the creator
StoreGroup_FirstMember(gc, chatId, userId, groupName, vm) ==
  MapSet(gc, chatId, [name |-> Trim(groupName),
                      createdBy |-> vm[1].id,
                      members |-> StoredMembers(vm)])


\* variant: an existing group keeps its members and gains the new ones
StoreGroup_Merge(gc, chatId, userId, groupName, vm) ==
  LET old == IF chatId \in DOMAIN gc THEN gc[chatId].members ELSE <<>>
      new == SelectSeq(StoredMembers(vm),
                       LAMBDA m : \A i \in DOMAIN old : old[i].id # m.id)
  IN  MapSet(gc, chatId, [name |-> Trim(groupName),
                          createdBy |-> userId,
                          members |-> old \o new])


\* groupChats.set(chatId, {...})
StoreGroup(gc, chatId, userId, groupName, vm) ==
  MapSet(gc, chatId, [name |-> Trim(groupName),
                      createdBy |-> userId,
                      members |-> StoredMembers(vm)])

\* variant: the record is written on every joinChat
EnsureChatRoom_Overwrite(cr, chatId, isGroup, groupName) ==
  MapSet(cr, chatId, [isGroup |-> isGroup,
                      name |-> IF isGroup THEN groupName ELSE DirectChatName,
                      messages |-> <<>>])

\* chatRooms.set(chatId, {...}) when the room is new
EnsureChatRoom(cr, chatId, isGroup, groupName) ==
  IF chatId \in DOMAIN cr THEN cr
  ELSE MapSet(cr, chatId, [isGroup |-> isGroup,
                           name |-> IF isGroup THEN groupName ELSE DirectChatName,
                           messages |-> <<>>])

\* direct chats: every connected socket of a user named in the id joins
JoinDirect(cu, rm, chatId) ==
  [rm EXCEPT ![chatId] =
     @ \cup {t \in DOMAIN cu : \E part \in SplitDash(chatId) : Tokens(cu[t].id) = <<part>>}]
\* variant: socket.broadcast.emit instead of socket.to(chatId).emit
RoomCast_Everyone(rm, s, event, chatId, data) ==
  EmitAll(Live \ {s}, event, chatId, data)


\* variant: io.to(chatId) instead of socket.to(chatId), the sender included
RoomCast_Echo(rm, s, event, chatId, data) ==
  EmitAll(rm[chatId] \cap Live, event, chatId, data)


\* socket.to(chatId).emit(...): the room without the sender
RoomCast(rm, s, event, chatId, data) ==
  EmitAll((rm[chatId] \cap Live) \ {s}, event, chatId, data)

\* socket.on('joinChat'), for the joinChat a client emits when it opens the
\* chat with the user target, or any other (target = NoUserId)
JoinChatFor(s, chatId, userId, username, isGroup, groupName, members, target) ==
  /\ sockets[s] = "open"
  /\ ev' = [Event("joinChat", s, chatId, userId) EXCEPT
              !.group = isGroup /\ members # <<>>,
              !.groupName = groupName, !.members = members, !.target = target]
  /\ UNCHANGED <<sent, received>>
  /\ LET rm1 == [rooms EXCEPT ![chatId] = @ \cup {s}]
         cr1 == EnsureChatRoom(chatRooms, chatId, isGroup, groupName)
         groupPayload == isGroup /\ members # <<>>
         vm == ValidMembers(members)
     IN  IF groupPayload /\ IsBlank(groupName)
         THEN /\ out' = <<Emit(s, "error", chatId, "Invalid group name")>>
              /\ rooms' = rm1
              /\ chatRooms' = cr1
              /\ UNCHANGED <<sockets, connectedUsers, groupChats, timers, groupHistory>>
         ELSE IF groupPayload /\ vm = <<>>
         THEN /\ out' = <<Emit(s, "error", chatId, "No valid members for group")>>
              /\ rooms' = rm1
              /\ chatRooms' = cr1
              /\ UNCHANGED <<sockets, connectedUsers, groupChats, timers, groupHistory>>
         ELSE IF groupPayload
         THEN LET isNewGroup == chatId \notin DOMAIN groupChats
                  stored == StoredMembers(vm)
                  rm2 == JoinMembers(connectedUsers, rm1, chatId, stored)
                  data == [name |-> Trim(groupName), createdBy |-> username,
                           members |-> stored]
              IN  /\ groupChats' = StoreGroup(groupChats, chatId, userId, groupName, vm)
                  /\ groupHistory' = IF isNewGroup
                                     THEN MapSet(groupHistory, chatId, userId)
                                     ELSE groupHistory
                  /\ rooms' = rm2
                  /\ chatRooms' = cr1
                  /\ timers' = Append(timers, [chatId |-> chatId, members |-> stored])
                  /\ out' = (IF isNewGroup
                             THEN Unicast(connectedUsers, stored, userId,
                                          "newGroupChat", chatId, data)
                                  \o Unicast(connectedUsers, stored, userId,
                                             "groupChatCreated", chatId, data)
                             ELSE <<>>)
                            \o RoomCast(rm2, s, "userJoined", chatId, username)
                  /\ UNCHANGED <<sockets, connectedUsers>>
         ELSE LET rm2 == IF ~isGroup /\ IncludesDash(chatId)
                         THEN JoinDirect(connectedUsers, rm1, chatId)
                         ELSE rm1
              IN  /\ rooms' = rm2
                  /\ chatRooms' = cr1
                  /\ out' = RoomCast(rm2, s, "userJoined", chatId, username)
                  /\ UNCHANGED <<sockets, connectedUsers, groupChats, timers,
                                 groupHistory>>

\* the joinChat payloads that pass the validation of lines 201-216 and reach
\* the setTimeout of line 271
SchedulesRecheck(isGroup, groupName, members) ==
  isGroup /\ members # <<>> /\ ~IsBlank(groupName) /\ ValidMembers(members) # <<>>

\* socket.on('joinChat'), while fewer than limit re-checks are pending
JoinChat(s, chatId, userId, username, isGroup, groupName, members, limit) ==
  /\ SchedulesRecheck(isGroup, groupName, members) => Len(timers) < limit
  /\ JoinChatFor(s, chatId, userId, username, isGroup, groupName, members, NoUserId)

\* handleStartChat and the joinChat of the chat screen it opens: the client
\* registered on s opens the direct chat with another user, target
StartChat(s, target) ==
  /\ s \in DOMAIN connectedUsers
  /\ target # connectedUsers[s].id
  /\ JoinChatFor(s, DirectId(connectedUsers[s].id, target), connectedUsers[s].id,
                 connectedUsers[s].username, FALSE, Empty, <<>>, target)

\* the re-check condition of the setTimeout callback
RecheckNeeded(rm, t) ==
  rm[t.chatId] # {} /\ Cardinality(rm[t.chatId]) < Len(t.members)

\* variant: a re-check that still misses a member schedules itself again
TimerFire_Retry ==
  /\ timers # <<>>
  /\ LET t == Head(timers)
         rm == IF RecheckNeeded(rooms, t)
               THEN JoinMembers(connectedUsers, rooms, t.chatId, t.members)
               ELSE rooms
     IN  /\ rooms' = rm
         /\ ev' = Event("timer", NoSocket, t.chatId, NoUserId)
         /\ timers' = IF RecheckNeeded(rm, t) THEN Append(Tail(timers), t)
                      ELSE Tail(timers)
  /\ out' = <<>>
  /\ UNCHANGED <<sockets, connectedUsers, chatRooms, groupChats, groupHistory,
                 sent, received>>

\* the setTimeout callback scheduled by joinChat
TimerFire ==
  /\ timers # <<>>
  /\ LET t == Head(timers)
     IN  /\ rooms' = IF RecheckNeeded(rooms, t)
                     THEN JoinMembers(connectedUsers, rooms, t.chatId, t.members)
                     ELSE rooms
         /\ ev' = Event("timer", NoSocket, t.chatId, NoUserId)
  /\ timers' = Tail(timers)
  /\ UNCHANGED <<sent, received>>
  /\ out' = <<>>
  /\ UNCHANGED <<sockets, connectedUsers, chatRooms, groupChats, groupHistory>>

\* ensureGroupMembersInRoom
ensureGroupMembersInRoom(cu, gc, rm, chatId) ==
  IF ~StartsWithGroup(chatId) \/ chatId \notin DOMAIN gc THEN rm
  ELSE JoinMembers(cu, rm, chatId, gc[chatId].members)

\* socket.on('getGroupInfo')
GetGroupInfo(s, chatId) ==
  /\ sockets[s] = "open"
  /\ ev' = Event("getGroupInfo", s, chatId, NoUserId)
  /\ UNCHANGED <<sent, received>>
  /\ IF chatId \in DOMAIN groupChats
     THEN /\ out' = <<Emit(s, "groupInfo", chatId, groupChats[chatId])>>
          /\ rooms' = [rooms EXCEPT ![chatId] = @ \cup {s}]
     ELSE /\ out' = <<>>
          /\ UNCHANGED rooms
  /\ UNCHANGED <<sockets, connectedUsers, chatRooms, groupChats, timers, groupHistory>>

\* variant: the creator check always passes
MayDelete_Anyone(group, userId) == TRUE

\* group.createdBy === userId
MayDelete(group, userId) == group.createdBy = userId

\* socket.on('deleteGroup')
DeleteGroup(s, chatId, userId) ==
  /\ sockets[s] = "open"
  /\ ev' = Event("deleteGroup", s, chatId, userId)
  /\ UNCHANGED <<sent, received>>
  /\ IF chatId \in DOMAIN groupChats
     THEN IF MayDelete(groupChats[chatId], userId)
          THEN /\ groupChats' = MapDelete(groupChats, chatId)
               /\ chatRooms' = MapDelete(chatRooms, chatId)
               /\ groupHistory' = MapSet(groupHistory, chatId, DeletedMark)
               /\ out' = Unicast(connectedUsers, groupChats[chatId].members, NoUserId,
                                 "groupDeleted", chatId, groupChats[chatId].name)
                         \o <<Emit(s, "groupDeleteSuccess", chatId,
                                   groupChats[chatId].name)>>
          ELSE /\ out' = <<Emit(s, "error", chatId, "unauthorized_delete")>>
               /\ UNCHANGED <<groupChats, chatRooms, groupHistory>>
     ELSE /\ out' = <<Emit(s, "error", chatId, "group_not_found")>>
          /\ UNCHANGED <<groupChats, chatRooms, groupHistory>>
  /\ UNCHANGED <<sockets, connectedUsers, rooms, timers>>

\* the sender identity carried by a routed message (lines 371-397)
MessageIdentity(cu, s, chatId, userId, username) ==
  IF ~IsBlank(username) THEN [userId |-> userId, username |-> username]
  ELSE IF s \in DOMAIN cu /\ cu[s].username # <<>>
       THEN [userId |-> cu[s].id, username |-> cu[s].username]
       ELSE [userId |-> IF userId # NoUserId THEN userId ELSE UnknownId,
             username |-> IF username # <<>> THEN username ELSE UnknownUser]

\* a message without usable name from an unregistered socket and without
\* chat id is dropped (line 394)
MessageDropped(cu, s, chatId, username) ==
  /\ IsBlank(username)
  /\ ~(s \in DOMAIN cu /\ cu[s].username # <<>>)
  /\ chatId = NoChat

\* the branch of line 427: per-member delivery
UsesUnicast(gc, chatId) == StartsWithGroup(chatId) /\ chatId \in DOMAIN gc

\* chatRoom.messages.push(messageData)
StoreMessage(cr, chatId, md) ==
  IF chatId \in DOMAIN cr
  THEN [cr EXCEPT ![chatId].messages = Append(@, md)]
  ELSE cr

\* variant: a packet overtakes the packets already written to the connection
Arrive_Front(rc, o, s, chatId, body) ==
  [t \in DOMAIN rc |->
     [i \in 1..Deliveries(o, "message", t) |->
        [from |-> s, chatId |-> chatId, body |-> body]] \o rc[t]]

\* memberSocket.emit('message', messageData) / socket.to(chatId).emit(...):
\* each packet of o is written to the connection of its socket, behind the
\* packets written before
Arrive(rc, o, s, chatId, body) ==
  [t \in DOMAIN rc |->
     rc[t] \o [i \in 1..Deliveries(o, "message", t) |->
                 [from |-> s, chatId |-> chatId, body |-> body]]]

\* socket.on('message'); numbered: the client numbers the messages it emits
\* and the connections record the numbers they are sent; limit: how many
\* messages a chatRooms record may hold
Message(s, chatId, userId, username, numbered, limit) ==
  /\ sockets[s] = "open"
  /\ chatId \in DOMAIN chatRooms => Len(chatRooms[chatId].messages) < limit
  /\ ev' = [Event("message", s, chatId, userId) EXCEPT !.name = username]
  /\ numbered => sent < MaxSent
  /\ LET md == MessageIdentity(connectedUsers, s, chatId, userId, username)
     IN  IF MessageDropped(connectedUsers, s, chatId, username)
         THEN /\ out' = <<>>
              /\ UNCHANGED <<rooms, chatRooms>>
         ELSE IF chatId # NoChat
         THEN LET rm1 == IF StartsWithGroup(chatId)
                         THEN ensureGroupMembersInRoom(connectedUsers, groupChats,
                                                       rooms, chatId)
                         ELSE rooms
              IN  /\ rooms' = rm1
                  /\ out' = IF UsesUnicast(groupChats, chatId)
                            THEN Unicast(connectedUsers, groupChats[chatId].members,
                                         md.userId, "message", chatId, md)
                            ELSE RoomCast(rm1, s, "message", chatId, md)
                  /\ chatRooms' = StoreMessage(chatRooms, chatId, md)
         ELSE /\ out' = EmitAll(Live \ {s}, "message", NoChat, md)
              /\ UNCHANGED <<rooms, chatRooms>>
  /\ IF numbered
     THEN /\ sent' = sent + 1
          /\ received' = Arrive(received, out', s, chatId, sent + 1)
     ELSE UNCHANGED <<sent, received>>
  /\ UNCHANGED <<sockets, connectedUsers, groupChats, timers, groupHistory>>

\* variant: the username of the payload is passed on as it is
TypingIdentity_Raw(cu, s, username) == username

\* the name carried by a typing indicator (lines 480-493); the fallback
\* `User-${socket.id.substring(0, 5)}` is the pair <<"User", socket id>>
TypingIdentity(cu, s, username) ==
  IF ~(IsBlank(username) \/ username = UnknownUser) THEN username
  ELSE IF s \in DOMAIN cu /\ cu[s].username # <<>> THEN cu[s].username
       ELSE <<"User", s>>

\* socket.on('typing')
Typing(s, chatId, username, isTyping) ==
  /\ sockets[s] = "open"
  /\ ev' = [Event("typing", s, chatId, NoUserId) EXCEPT !.name = username]
  /\ UNCHANGED <<sent, received>>
  /\ LET data == [username |-> TypingIdentity(connectedUsers, s, username),
                  isTyping |-> isTyping]
     IN  IF chatId # NoChat
         THEN LET rm1 == IF UsesUnicast(groupChats, chatId)
                         THEN ensureGroupMembersInRoom(connectedUsers, groupChats,
                                                       rooms, chatId)
                         ELSE rooms
              IN  /\ rooms' = rm1
                  /\ out' = RoomCast(rm1, s, "userTyping", chatId, data)
         ELSE /\ out' = EmitAll(Live \ {s}, "userTyping", NoChat, data)
              /\ UNCHANGED rooms
  /\ UNCHANGED <<sockets, connectedUsers, chatRooms, groupChats, timers, groupHistory>>

\* variant: every entry that carries the name of the socket is renamed
Rename_SameName(cu, s, newUsername) ==
  IF s \in DOMAIN cu
  THEN [t \in DOMAIN cu |->
          IF cu[t].username = cu[s].username
          THEN [cu[t] EXCEPT !.username = Trim(newUsername)]
          ELSE cu[t]]
  ELSE cu

\* user.username = newUsername.trim() for the entry of the socket, if any
Rename(cu, s, newUsername) ==
  IF s \in DOMAIN cu THEN [cu EXCEPT ![s].username = Trim(newUsername)] ELSE cu

\* socket.on('usernameChange')
UsernameChange(s, oldUsername, newUsername) ==
  /\ sockets[s] = "open"
  /\ ev' = [Event("usernameChange", s, NoChat, NoUserId) EXCEPT !.name = newUsername]
  /\ UNCHANGED <<sent, received>>
  /\ IF IsBlank(newUsername)
     THEN /\ out' = <<Emit(s, "error", NoChat, "Invalid username")>>
          /\ UNCHANGED connectedUsers
     ELSE LET cu == Rename(connectedUsers, s, newUsername)
          IN  /\ connectedUsers' = cu
              /\ out' = EmitAll(Live \ {s}, "message", NoChat,
                                [userId |-> "system", username |-> <<"System">>,
                                 old |-> oldUsername, new |-> Trim(newUsername)])
                        \o EmitAll(Live, "onlineUsers", NoChat, OnlineUsers(cu))
  /\ UNCHANGED <<sockets, chatRooms, groupChats, rooms, timers, groupHistory>>

\* ------------------------------------------------------------ event inputs
JoinIds == Users \cup {NoUserId}
MemberA == [id |-> "A", username |-> PaddedA]
MemberB == [id |-> "B", username |-> PaddedA]
BlankB == [id |-> "B", username |-> Blank]
\* joinChat payloads: isGroup, groupName, members
Payloads ==
  { [isGroup |-> FALSE, groupName |-> Empty, members |-> <<>>],
    [isGroup |-> TRUE, groupName |-> PaddedT, members |-> <<MemberA>>],
    [isGroup |-> TRUE, groupName |-> PaddedT, members |-> <<MemberA, MemberB>>],
    [isGroup |-> TRUE, groupName |-> PaddedT, members |-> <<BlankB>>],
    [isGroup |-> TRUE, groupName |-> Blank, members |-> <<MemberA, MemberB>>] }

\* every handler, for the events described by the record inp: the sockets
\* socks, the chats chats, joins as joinIds named joinNames, group payloads
\* payloads, messages to msgChats asserting a userId of senders and a
\* username of msgNames, typing indicators to typChats named typNames,
\* renames to newNames; numbered: the sockets whose messages are numbered; history: how many
\* messages a chatRooms record may hold; timers: how many re-checks may be
\* pending
NextWith(inp) ==
  \/ \E s \in inp.socks : Connect(s)
  \/ \E s \in inp.socks, u \in inp.joinIds, n \in inp.joinNames, b \in BOOLEAN :
        Join(s, u, n, b)
  \/ \E s \in inp.socks : Disconnect(s)
  \/ \E s \in inp.socks : FinishClose(s)
  \/ \E s \in inp.socks, c \in inp.chats, u \in Users, p \in inp.payloads :
        JoinChat(s, c, u, NameA, p.isGroup, p.groupName, p.members, inp.timers)
  \/ TimerFire
  \/ \E s \in inp.socks, c \in inp.chats : GetGroupInfo(s, c)
  \/ \E s \in inp.socks, c \in inp.chats, u \in Users : DeleteGroup(s, c, u)
  \/ \E s \in inp.socks, c \in inp.msgChats, u \in inp.senders, n \in inp.msgNames :
        Message(s, c, u, n, s \in inp.numbered, inp.history)
  \/ \E s \in inp.socks, c \in inp.typChats, n \in inp.typNames : Typing(s, c, n, TRUE)
  \/ \E s \in inp.socks, n \in inp.newNames : UsernameChange(s, NameA, n)

\* the events of socks about chats with messages in the name of senders:
\* every join and rename is named " a", every message and typing indicator "a"
Inputs(socks, chats, senders) ==
  [socks |-> socks, chats |-> chats, joinIds |-> JoinIds, joinNames |-> {PaddedA},
   payloads |-> Payloads, msgChats |-> chats, senders |-> senders,
   msgNames |-> {NameA}, typChats |-> chats, typNames |-> {NameA},
   newNames |-> {PaddedA}, numbered |-> {}, history |-> MaxHistory,
   timers |-> MaxTimers]

NextOn(socks, chats, senders) == NextWith(Inputs(socks, chats, senders))

\* two connections, the group id "group-g", messages in the name of A
Next == NextOn({"s1", "s2"}, {GroupId}, {"A"})

Spec == Init /\ [][Next]_vars

\* two connections, a group stored under the id "team", messages in the
\* name of either user
NextTeam == NextOn({"s1", "s2"}, {TeamId}, Users)

SpecTeam == Init /\ [][NextTeam]_vars

\* two connections, the direct chat id "A-B", messages in the name of either
\* user; joinChat without group payload or with the group of A and B
DirectInputs ==
  [Inputs({"s1", "s2"}, {DirectAB}, Users) EXCEPT
     !.payloads = {[isGroup |-> FALSE, groupName |-> Empty, members |-> <<>>],
                   [isGroup |-> TRUE, groupName |-> PaddedT,
                    members |-> <<MemberA, MemberB>>]}]

NextDirect == NextWith(DirectInputs)

SpecDirect == Init /\ [][NextDirect]_vars

\* three connections and the group "group-g" of A and B: valid joins, the
\* one group payload, messages in the name of B
TakeoverInputs ==
  [socks |-> Sockets, chats |-> {GroupId}, joinIds |-> Users, joinNames |-> {PaddedA},
   payloads |-> {[isGroup |-> TRUE, groupName |-> PaddedT,
                  members |-> <<MemberA, MemberB>>]},
   msgChats |-> {GroupId}, senders |-> {"B"}, msgNames |-> {NameA},
   typChats |-> {GroupId}, typNames |-> {NameA}, newNames |-> {PaddedA},
   numbered |-> {}, history |-> MaxHistory,
   timers |-> MaxTimers]

NextTakeover == NextWith(TakeoverInputs)

SpecTakeover == Init /\ [][NextTakeover]_vars

\* two connections and the group id "group-g": group payloads that pass the
\* validation as they are or after dropping a blank member, or fail it
GroupInputs ==
  [Inputs({"s1", "s2"}, {GroupId}, {"A"}) EXCEPT
     !.joinIds = Users,
     !.payloads = {[isGroup |-> TRUE, groupName |-> PaddedT,
                    members |-> <<MemberA, MemberB>>],
                   [isGroup |-> TRUE, groupName |-> PaddedT,
                    members |-> <<MemberA, BlankB>>],
                   [isGroup |-> TRUE, groupName |-> PaddedT, members |-> <<BlankB>>],
                   [isGroup |-> TRUE, groupName |-> Blank,
                    members |-> <<MemberA, MemberB>>]}]

NextGroup == NextWith(GroupInputs)

SpecGroup == Init /\ [][NextGroup]_vars

\* two connections and the group id "group-g": group payloads naming A and
\* B, or A twice
DuplicateInputs ==
  [Inputs({"s1", "s2"}, {GroupId}, {"A"}) EXCEPT
     !.joinIds = Users,
     !.payloads = {[isGroup |-> TRUE, groupName |-> PaddedT,
                    members |-> <<MemberA, MemberB>>],
                   [isGroup |-> TRUE, groupName |-> PaddedT,
                    members |-> <<MemberA, MemberA>>]}]

NextDuplicate == NextWith(DuplicateInputs)

SpecDuplicate == Init /\ [][NextDuplicate]_vars

\* two connections and the group id "group-g", with the events the handlers
\* refuse: joins without userId or with a blank name, group payloads with a
\* blank name or without valid member, blank renames, deletes by others
ErrorInputs ==
  [Inputs({"s1", "s2"}, {GroupId}, {"A"}) EXCEPT
     !.joinIds = {"A", NoUserId},
     !.joinNames = {PaddedA, Blank},
     !.newNames = {PaddedA, Blank},
     !.payloads = {[isGroup |-> TRUE, groupName |-> PaddedT,
                    members |-> <<MemberA, MemberB>>],
                   [isGroup |-> TRUE, groupName |-> PaddedT, members |-> <<BlankB>>],
                   [isGroup |-> TRUE, groupName |-> Blank,
                    members |-> <<MemberA, MemberB>>]}]

NextError == NextWith(ErrorInputs)

SpecError == Init /\ [][NextError]_vars

\* two connections and the group "group-g" of A and B: valid joins named
\* " a", renames to " b" and to a blank name
RenameInputs ==
  [Inputs({"s1", "s2"}, {GroupId}, {"A"}) EXCEPT
     !.joinIds = Users,
     !.newNames = {PaddedB, Blank},
     !.payloads = {[isGroup |-> TRUE, groupName |-> PaddedT,
                    members |-> <<MemberA, MemberB>>]}]

NextRename == NextWith(RenameInputs)

SpecRename == Init /\ [][NextRename]_vars

\* two connections, the group id "group-g" and the global channel: typing
\* indicators with and without chat id and username
TypingInputs ==
  [Inputs({"s1", "s2"}, {GroupId}, {"A"}) EXCEPT
     !.joinIds = Users,
     !.typChats = {NoChat, GroupId},
     !.typNames = {NameA, Empty, UnknownUser},
     !.payloads = {[isGroup |-> FALSE, groupName |-> Empty, members |-> <<>>],
                   [isGroup |-> TRUE, groupName |-> PaddedT,
                    members |-> <<MemberA, MemberB>>]}]

NextTyping == NextWith(TypingInputs)

SpecTyping == Init /\ [][NextTyping]_vars

\* two connections, the group id "group-g" and the global channel: joins of
\* user A with and without a userId and a usable name, messages without
\* userId, with and without a chat id and a username
GlobalInputs ==
  [socks |-> {"s1", "s2"}, chats |-> {GroupId}, joinIds |-> {"A", NoUserId},
   joinNames |-> {PaddedA, Blank},
   payloads |-> {[isGroup |-> FALSE, groupName |-> Empty, members |-> <<>>],
                 [isGroup |-> TRUE, groupName |-> PaddedT, members |-> <<MemberA>>]},
   msgChats |-> {NoChat, GroupId}, senders |-> {NoUserId},
   msgNames |-> {NameA, Empty},
   typChats |-> {GroupId}, typNames |-> {NameA}, newNames |-> {PaddedA},
   numbered |-> {}, history |-> MaxHistory,
   timers |-> MaxTimers]

NextGlobal == NextWith(GlobalInputs)

SpecGlobal == Init /\ [][NextGlobal]_vars
\* two connections, either of which may register as B, and the group
\* "group-g" of A and B: messages to the group in the name of A, those of
\* s1 numbered, between joins, takeovers, deletions and re-creations of the
\* group
OrderInputs ==
  [Inputs({"s1", "s2"}, {GroupId}, {"A"}) EXCEPT
     !.joinIds = {"B"},
     !.payloads = {[isGroup |-> TRUE, groupName |-> PaddedT,
                    members |-> <<MemberA, MemberB>>]},
     !.numbered = {"s1"}]

NextOrder == NextWith(OrderInputs)

SpecOrder == Init /\ [][NextOrder]_vars


\* two connections and the group "group-g" of A and B, with room for one
\* more stored message: the same message sent twice in a row
TwiceInputs ==
  [Inputs({"s1", "s2"}, {GroupId}, {"A"}) EXCEPT
     !.joinIds = Users,
     !.payloads = {[isGroup |-> TRUE, groupName |-> PaddedT,
                    members |-> <<MemberA, MemberB>>]},
     !.history = MaxHistory + 1]

NextTwice == NextWith(TwiceInputs)

SpecTwice == Init /\ [][NextTwice]_vars

\* two connections and the group "group-g" of A and B while only A ever
\* registers; a scheduled re-check fires once its delay has passed
RecheckInputs ==
  [Inputs({"s1", "s2"}, {GroupId}, {"A"}) EXCEPT
     !.joinIds = {"A"},
     !.payloads = {[isGroup |-> TRUE, groupName |-> PaddedT,
                    members |-> <<MemberA, MemberB>>]}]

NextRecheck == NextWith(RecheckInputs)

SpecRecheck == Init /\ [][NextRecheck]_vars /\ WF_vars(TimerFire)

\* two connections of the users A and B, who open the direct chat with one
\* another; the other events are about the chat "A-B"
StartInputs ==
  [Inputs({"s1", "s2"}, {DirectAB}, {"A"}) EXCEPT
     !.joinIds = Users,
     !.payloads = {[isGroup |-> TRUE, groupName |-> PaddedT,
                    members |-> <<MemberA, MemberB>>]}]

NextStart ==
  \/ NextWith(StartInputs)
  \/ \E s \in StartInputs.socks, target \in StartInputs.joinIds : StartChat(s, target)

SpecStart == Init /\ [][NextStart]_vars

\* two connections of the users A and "x-y", who open the direct chat with
\* one another; the other events are about the chat "A-x-y"
DashedInputs ==
  [Inputs({"s1", "s2"}, {DirectAX}, {"A"}) EXCEPT
     !.joinIds = {"A", DashedId},
     !.payloads = {[isGroup |-> TRUE, groupName |-> PaddedT,
                    members |-> <<MemberA, MemberB>>]}]

NextDashed ==
  \/ NextWith(DashedInputs)
  \/ \E s \in DashedInputs.socks, target \in DashedInputs.joinIds : StartChat(s, target)

SpecDashed == Init /\ [][NextDashed]_vars

\* two connections and the group id "group-g", with room for one more
\* pending re-check: a group of A and B whose member list is replaced by A
\* alone while the re-check of the first joinChat is pending
StaleInputs ==
  [Inputs({"s1", "s2"}, {GroupId}, {"A"}) EXCEPT
     !.joinIds = Users,
     !.payloads = {[isGroup |-> TRUE, groupName |-> PaddedT,
                    members |-> <<MemberA, MemberB>>],
                   [isGroup |-> TRUE, groupName |-> PaddedT, members |-> <<MemberA>>]},
     !.timers = MaxTimers + 1]

NextStale == NextWith(StaleInputs)

SpecStale == Init /\ [][NextStale]_vars

TypeOK ==
  /\ sockets \in [Sockets -> {"closed", "open", "closing"}]
  /\ DOMAIN connectedUsers \subseteq Live
  /\ DOMAIN groupChats \subseteq ChatIds
  /\ DOMAIN chatRooms \subseteq ChatIds
  /\ \A c \in ChatIds : rooms[c] \subseteq Sockets
  /\ Len(timers) <= MaxTimers

\* --------------------------------------------------------------- properties
HasError(o, t, data) ==
  \E i \in DOMAIN o : o[i].event = "error" /\ o[i].to = t /\ o[i].data = data

NoError(o) == \A i \in DOMAIN o : o[i].event # "error"

\* the connected sockets registered for a member of the stored group c
MemberSockets(cu, gc, c) ==
  {t \in DOMAIN cu : \E i \in DOMAIN gc[c].members : gc[c].members[i].id = cu[t].id}

\* C1: the registry never holds two sessions of one userId, and a successful
\* join of userId u on socket s leaves s as the only session of u: every
\* other session that was registered for u is out of the registry and its
\* socket is no longer open.
C1_OneSessionPerUser ==
  [][ /\ \A u \in Users : Cardinality(SocketsOf(connectedUsers', u)) <= 1
      /\ (ev'.type = "join" /\ NoError(out'))
           => /\ SocketsOf(connectedUsers', ev'.userId) = {ev'.socket}
              /\ \A t \in SocketsOf(connectedUsers, ev'.userId) \ {ev'.socket} :
                    sockets'[t] # "open" ]_vars

\* a join took the user over from another socket, which is still closing
C1_Witness ==
  /\ ev.type = "join"
  /\ ev.socket \in DOMAIN connectedUsers
  /\ connectedUsers[ev.socket].id = ev.userId
  /\ \E t \in Sockets \ {ev.socket} : sockets[t] = "closing"

\* C2: createdBy of a stored group never changes while the group exists.
C2_CreatorImmutable ==
  [][ \A c \in (DOMAIN groupChats) \cap (DOMAIN groupChats') :
        groupChats'[c].createdBy = groupChats[c].createdBy ]_vars

C4_OnlyFirstCreatorDeletes ==
  [][ \A c \in DOMAIN groupChats :
        c \notin DOMAIN groupChats'
          => ev'.type = "deleteGroup" /\ ev'.userId = groupHistory[c] ]_vars

\* C5: after an acknowledged deleteGroup the group record and the chat room
\* record are gone and the room of that id has no subscriber.
C5_DeleteClearsSubscriptions ==
  (ev.type = "deleteGroup" /\ Deliveries(out, "groupDeleteSuccess", ev.socket) = 1)
    => /\ ev.chatId \notin DOMAIN groupChats
       /\ ev.chatId \notin DOMAIN chatRooms
       /\ rooms[ev.chatId] = {}

\* C6: a successful deleteGroup sends groupDeleted to every connected prior
\* member and the acknowledgement to the requester, and a getGroupInfo for
\* an id whose group was deleted is answered with a not-found error.
C6_DeleteNotifiesAndInfoNotFound ==
  [][ /\ (ev'.type = "deleteGroup" /\ NoError(out'))
           => /\ \A t \in MemberSockets(connectedUsers, groupChats, ev'.chatId) :
                    Deliveries(out', "groupDeleted", t) >= 1
              /\ Deliveries(out', "groupDeleteSuccess", ev'.socket) = 1
      /\ (ev'.type = "getGroupInfo"
          /\ ev'.chatId \in DOMAIN groupHistory
          /\ groupHistory[ev'.chatId] = DeletedMark)
           => HasError(out', ev'.socket, "group_not_found") ]_vars

\* C7: right after a joinChat stored a group, every connected socket of a
\* stored member is in the room of the group.
C7_CreateSubscribesLiveMembers ==
  (ev.type = "joinChat" /\ ev.group /\ NoError(out))
    => MemberSockets(connectedUsers, groupChats, ev.chatId) \subseteq rooms[ev.chatId]

\* a joinChat stored a group with a connected member other than the sender
C7_Witness ==
  /\ ev.type = "joinChat" /\ ev.group /\ NoError(out)
  /\ \E t \in MemberSockets(connectedUsers, groupChats, ev.chatId) :
        t # ev.socket /\ t \in rooms[ev.chatId]

\* C8: in every state, every connected socket registered for a member of a
\* stored group is in the room of that group; a join alone puts the joining
\* socket into the rooms of the user's groups.
C8_MembersSubscribed ==
  \A c \in DOMAIN groupChats :
    MemberSockets(connectedUsers, groupChats, c) \subseteq rooms[c]

\* a member registered after the group was stored and is in its room, on a
\* socket that did not send the joinChat
C8_Witness ==
  /\ ev.type = "join" /\ NoError(out)
  /\ \E c \in DOMAIN groupChats :
        /\ ev.socket \in MemberSockets(connectedUsers, groupChats, c)
        /\ ev.socket \in rooms[c]
        /\ groupChats[c].createdBy # ev.userId

\* C9: a re-check that fires while the group it was scheduled for is deleted
\* (deleteGroup removed it and no joinChat stored it again) changes no room.
C9_RecheckAfterDeleteIsNoOp ==
  [][ (ev'.type = "timer" /\ timers # <<>>
       /\ Head(timers).chatId \in DOMAIN groupHistory
       /\ groupHistory[Head(timers).chatId] = DeletedMark)
        => rooms' = rooms ]_vars

\* C10: a message to an id with a stored group reaches, once each, exactly
\* the connected sockets of the group's members other than the sending one.
C10_GroupMessageUnicast ==
  (ev.type = "message" /\ ev.chatId \in DOMAIN groupChats)
    => \A t \in Sockets :
         Deliveries(out, "message", t) =
           IF t \in MemberSockets(connectedUsers, groupChats, ev.chatId) \ {ev.socket}
           THEN 1 ELSE 0

\* C11: no message packet goes to the socket that sent the message, whatever
\* the routing path and whatever userId and username the payload asserts.
C11_NeverBackToSender ==
  ev.type = "message" => Deliveries(out, "message", ev.socket) = 0

\* C12: a message to a chat id without a stored group (a 'group-' id
\* included) reaches, once each, exactly the open sockets subscribed to the
\* room of that id other than the sending one.
C12_RoomBroadcast ==
  (ev.type = "message" /\ ev.chatId # NoChat /\ ev.chatId \notin DOMAIN groupChats)
    => \A t \in Sockets :
         Deliveries(out, "message", t) =
           IF t \in (rooms[ev.chatId] \cap Live) \ {ev.socket} THEN 1 ELSE 0

\* a subscribed sender's message to a 'group-' id without a stored group
\* reached another subscriber
C12_Witness ==
  /\ ev.type = "message"
  /\ StartsWithGroup(ev.chatId)
  /\ ev.chatId \notin DOMAIN groupChats
  /\ ev.socket \in rooms[ev.chatId]
  /\ \E t \in rooms[ev.chatId] \ {ev.socket} : Deliveries(out, "message", t) = 1


\* the sockets a message of the last step had to reach: everyone else on the
\* global channel, the other sockets of the members for a stored 'group-'
\* group, the other subscribers of the room otherwise
Recipients ==
  IF ev.chatId = NoChat THEN Live \ {ev.socket}
  ELSE IF UsesUnicast(groupChats, ev.chatId)
       THEN MemberSockets(connectedUsers, groupChats, ev.chatId) \ {ev.socket}
       ELSE (rooms[ev.chatId] \cap Live) \ {ev.socket}

\* C13: a message without chat id reaches, once each, exactly the open
\* sockets other than the sending one.
C13_GlobalFallback ==
  (ev.type = "message" /\ ev.chatId = NoChat)
    => \A t \in Sockets :
         Deliveries(out, "message", t) = IF t \in Live \ {ev.socket} THEN 1 ELSE 0

\* C14: a message whose username is missing or blank is never dropped: it
\* reaches every recipient of its routing path, carrying the registry's
\* userId and username of the sending socket when that socket is registered
\* and a non-blank placeholder name and id otherwise.
C14_NamelessMessageDelivered ==
  (ev.type = "message" /\ IsBlank(ev.name))
    => /\ \A t \in Recipients : Deliveries(out, "message", t) >= 1
       /\ \A i \in DOMAIN out :
            out[i].event = "message"
              => IF ev.socket \in DOMAIN connectedUsers
                 THEN /\ out[i].data.userId = connectedUsers[ev.socket].id
                      /\ out[i].data.username = connectedUsers[ev.socket].username
                 ELSE /\ out[i].data.userId # NoUserId
                      /\ ~IsBlank(out[i].data.username)


\* C18: a join without userId, or with a username that is missing or blank
\* after trimming, is answered with the invalid-user error alone and changes
\* neither the registry nor any socket or room: no entry is added, no socket
\* is disconnected, no userJoined or onlineUsers packet is sent.
C18_InvalidJoinRejected ==
  [][ (ev'.type = "join" /\ (ev'.userId = NoUserId \/ Trim(ev'.name) = <<>>))
        => /\ out' = <<Emit(ev'.socket, "error", NoChat, "Invalid user data")>>
           /\ connectedUsers' = connectedUsers
           /\ sockets' = sockets
           /\ rooms' = rooms ]_vars

\* a join with a blank username for a userId that another socket holds was
\* refused and the holder is still registered
C18_Witness ==
  /\ ev.type = "join"
  /\ ev.userId # NoUserId
  /\ Trim(ev.name) = <<>>
  /\ HasError(out, ev.socket, "Invalid user data")
  /\ \E t \in DOMAIN connectedUsers \ {ev.socket} :
        connectedUsers[t].id = ev.userId /\ sockets[t] = "open"


\* the ids of direct chats: two user ids joined by '-'
DirectIds == {c \in ChatIds : IncludesDash(c) /\ ~StartsWithGroup(c)}

\* C15: the messages of a direct chat are never replayed: a message to a
\* direct chat id sends nothing to a socket that is not in the room at that
\* moment and one packet to every other open socket that is, and no other
\* step (a later joinChat of that socket included) sends a message packet of
\* that chat.
C15_NoReplay ==
  [][ \A c \in DirectIds :
        /\ ev'.type # "message"
             => \A i \in DOMAIN out' :
                  ~(out'[i].event = "message" /\ out'[i].chatId = c)
        /\ (ev'.type = "message" /\ ev'.chatId = c)
             => \A t \in Sockets :
                  /\ t \notin rooms[c] => Deliveries(out', "message", t) = 0
                  /\ t \in (rooms[c] \cap Live) \ {ev'.socket}
                       => Deliveries(out', "message", t) = 1 ]_vars

\* the socket of B joined the direct chat "A-B" that already holds a message
\* of A, and received no message packet
C15_Witness ==
  /\ ev.type = "joinChat" /\ ~ev.group
  /\ ev.chatId \in DirectIds
  /\ ev.socket \in DOMAIN connectedUsers
  /\ connectedUsers[ev.socket].id = "B"
  /\ ev.chatId \in DOMAIN chatRooms
  /\ chatRooms[ev.chatId].messages # <<>>
  /\ chatRooms[ev.chatId].messages[1].userId = "A"
  /\ Deliveries(out, "message", ev.socket) = 0
  /\ \E t \in rooms[ev.chatId] \ {ev.socket} : Deliveries(out, "userJoined", t) = 1


\* the packets sent to the socket found for a userId: the group notices and
\* the messages of a stored 'group-' group
Addressed(p, gc) ==
  \/ p.event \in {"newGroupChat", "groupChatCreated", "groupDeleted"}
  \/ p.event = "message" /\ UsesUnicast(gc, p.chatId)

\* C16: a packet addressed to a userId goes to the socket of that user's
\* latest registration: its target is open, holds a registry entry and is
\* the only socket registered for its userId; the socket a takeover evicted
\* (still closing or closed) gets none.  A named message to a stored
\* 'group-' group reaches the registered socket of every member other than
\* the userId it asserts.
C16_DeliveryToLatestSession ==
  [][ /\ \A i \in DOMAIN out' :
           Addressed(out'[i], groupChats)
             => LET t == out'[i].to
                IN  /\ sockets[t] = "open"
                    /\ t \in DOMAIN connectedUsers
                    /\ SocketsOf(connectedUsers, connectedUsers[t].id) = {t}
      /\ (ev'.type = "message" /\ Trim(ev'.name) # <<>>
          /\ UsesUnicast(groupChats, ev'.chatId))
           => \A t \in MemberSockets(connectedUsers, groupChats, ev'.chatId) :
                connectedUsers[t].id # ev'.userId
                  => Deliveries(out', "message", t) >= 1 ]_vars

\* while a socket evicted by a takeover is still closing, a group message of
\* a third socket reached the registered socket of another member
C16_Witness ==
  /\ ev.type = "message"
  /\ \E t \in Sockets \ {ev.socket} : sockets[t] = "closing"
  /\ \E i \in DOMAIN out :
        /\ out[i].event = "message"
        /\ out[i].to # ev.socket
        /\ out[i].to \in DOMAIN connectedUsers
        /\ sockets[out[i].to] = "open"


\* C17: a takeover and the disconnect of the old socket commute: the
\* disconnect handler of a socket removes at most that socket's own registry
\* entry, whether the socket closed by itself or was disconnected by a
\* takeover, before or after the new registration; a socket that is being
\* disconnected holds no entry; and a successful join of userId u on socket s
\* leaves s as the one socket registered for u.
C17_TakeoverDisconnectRace ==
  [][ /\ ev'.type = "disconnect"
           => \A t \in (DOMAIN connectedUsers) \ {ev'.socket} :
                t \in DOMAIN connectedUsers' /\ connectedUsers'[t] = connectedUsers[t]
      /\ \A t \in Sockets : sockets'[t] = "closing" => t \notin DOMAIN connectedUsers'
      /\ (ev'.type = "join" /\ NoError(out'))
           => SocketsOf(connectedUsers', ev'.userId) = {ev'.socket} ]_vars

\* the disconnect forced by a takeover was handled after the takeover, and
\* the socket that took over is still the registered one
C17_Witness ==
  /\ ev.type = "disconnect"
  /\ ev.reason = "server namespace disconnect"
  /\ \E t \in DOMAIN connectedUsers : sockets[t] = "open" /\ t # ev.socket


\* C19: a joinChat with a group payload that is answered with the invalid
\* group name or the no-valid-members error leaves the group directory, the
\* chat-room records and the rooms as they were.
C19_InvalidGroupChangesNothing ==
  [][ (ev'.type = "joinChat" /\ ev'.group
       /\ (\/ HasError(out', ev'.socket, "Invalid group name")
           \/ HasError(out', ev'.socket, "No valid members for group")))
        => /\ groupChats' = groupChats
           /\ chatRooms' = chatRooms
           /\ rooms' = rooms ]_vars

\* C20: every stored group has a trimmed, non-empty name and at least one
\* member, and every stored member has a username that is not blank.
C20_StoredGroupsValid ==
  \A c \in DOMAIN groupChats :
    /\ groupChats[c].name # <<>>
    /\ groupChats[c].name = Trim(groupChats[c].name)
    /\ groupChats[c].members # <<>>
    /\ \A i \in DOMAIN groupChats[c].members :
         Trim(groupChats[c].members[i].username) # <<>>

\* a group was stored from a payload that named a member with a blank
\* username next to a valid one: only the valid member is kept
C20_Witness ==
  /\ ev.type = "joinChat" /\ ev.group /\ NoError(out)
  /\ ev.chatId \in DOMAIN groupChats
  /\ Len(groupChats[ev.chatId].members) = 1
  /\ groupChats[ev.chatId].name = Trim(PaddedT)


\* C21: the member list of every stored group names each userId at most
\* once, whatever member lists the joinChat events carried.
C21_MembersUnique ==
  \A c \in DOMAIN groupChats :
    \A i, j \in DOMAIN groupChats[c].members :
      groupChats[c].members[i].id = groupChats[c].members[j].id => i = j


\* C22: a joinChat with a valid group payload for a stored group replaces
\* the record: the stored members are exactly the payload's members with a
\* non-blank username, in the payload's order and with trimmed usernames,
\* and the stored name is the payload's trimmed groupName.
C22_UpdateReplaces ==
  [][ (ev'.type = "joinChat" /\ ev'.group /\ NoError(out')
       /\ ev'.chatId \in DOMAIN groupChats)
        => LET valid == SelectSeq(ev'.members, LAMBDA m : Trim(m.username) # <<>>)
               g == groupChats'[ev'.chatId]
           IN  /\ g.name = Trim(ev'.groupName)
               /\ Len(g.members) = Len(valid)
               /\ \A i \in DOMAIN valid :
                    /\ g.members[i].id = valid[i].id
                    /\ g.members[i].username = Trim(valid[i].username) ]_vars

\* a user other than the one who created the stored group sent a payload
\* without B: the group has one member left, while the socket of B is still
\* in the room
C22_Witness ==
  /\ ev.type = "joinChat" /\ ev.group /\ NoError(out)
  /\ ev.chatId \in DOMAIN groupChats
  /\ groupHistory[ev.chatId] # ev.userId
  /\ Len(groupChats[ev.chatId].members) = 1
  /\ groupChats[ev.chatId].members[1].id = "A"
  /\ \E t \in rooms[ev.chatId] \cap DOMAIN connectedUsers : connectedUsers[t].id = "B"


\* the two notices of a group creation
Notices == {"newGroupChat", "groupChatCreated"}

Rejected(e, gc) ==
  \/ e.type = "join" /\ (e.userId = NoUserId \/ Trim(e.name) = <<>>)
  \/ /\ e.type = "joinChat" /\ e.group
     /\ \/ Trim(e.groupName) = <<>>
        \/ \A i \in DOMAIN e.members : Trim(e.members[i].username) = <<>>
  \/ e.type = "usernameChange" /\ Trim(e.name) = <<>>
  \/ /\ e.type = "deleteGroup"
     /\ (e.chatId \notin DOMAIN gc \/ gc[e.chatId].createdBy # e.userId)

\* C24: an event that fails validation or authorization (invalid join,
\* invalid group payload, blank rename, delete of an unknown group or by
\* someone else than its creator) emits one error packet to the socket that
\* sent it and nothing else.
C24_ErrorsOnlyToSender ==
  [][ Rejected(ev', groupChats)
        => /\ Len(out') = 1
           /\ out'[1].event = "error"
           /\ out'[1].to = ev'.socket ]_vars

\* a blank rename was refused while another registered socket is open
C24_Witness ==
  /\ ev.type = "usernameChange"
  /\ Trim(ev.name) = <<>>
  /\ HasError(out, ev.socket, "Invalid username")
  /\ \E t \in DOMAIN connectedUsers \ {ev.socket} : sockets[t] = "open"


\* the registry entries of the open sockets, as the presence list shows them
Presence(cu, sk) ==
  {[id |-> cu[x].id, username |-> cu[x].username] :
     x \in {y \in DOMAIN cu : sk[y] = "open"}}

\* C25: the registry changes only in a successful join, a successful
\* usernameChange and the disconnect of a registered socket, and each of
\* these sends one onlineUsers packet to every open socket, listing exactly
\* the registry entries of the open sockets after the step, with their
\* current names and one entry per userId.
C25_PresenceFollowsRegistry ==
  [][ LET changing ==
            \/ ev'.type \in {"join", "usernameChange"} /\ ~Rejected(ev', groupChats)
            \/ ev'.type = "disconnect" /\ ev'.socket \in DOMAIN connectedUsers
          open == {t \in Sockets : sockets'[t] = "open"}
          list == Presence(connectedUsers', sockets')
      IN  /\ connectedUsers' # connectedUsers => changing
          /\ changing
               => /\ \A t \in open :
                       /\ Deliveries(out', "onlineUsers", t) = 1
                       /\ \A i \in DOMAIN out' :
                            (out'[i].event = "onlineUsers" /\ out'[i].to = t)
                              => out'[i].data = list
                  /\ DOMAIN connectedUsers' \subseteq open
                  /\ Cardinality(list) = Cardinality(DOMAIN connectedUsers')
                  /\ \A x, y \in list : x.id = y.id => x = y ]_vars

\* a registered socket changed its name to "b" and the other registered
\* socket was sent the list with the new name
C25_Witness ==
  /\ ev.type = "usernameChange"
  /\ ev.socket \in DOMAIN connectedUsers
  /\ connectedUsers[ev.socket].username = Trim(PaddedB)
  /\ \E t \in DOMAIN connectedUsers \ {ev.socket} :
       \E i \in DOMAIN out :
         /\ out[i].event = "onlineUsers" /\ out[i].to = t
         /\ [id |-> connectedUsers[ev.socket].id, username |-> Trim(PaddedB)]
              \in out[i].data


\* C26: the disconnect of a socket without registry entry (never registered,
\* or evicted by a takeover) leaves the registry as it is and emits nothing;
\* the disconnect of a registered socket removes the entry of that socket
\* and leaves every other entry as it is.
C26_UnregisterFrame ==
  [][ ev'.type = "disconnect"
        => IF ev'.socket \notin DOMAIN connectedUsers
           THEN connectedUsers' = connectedUsers /\ out' = <<>>
           ELSE /\ DOMAIN connectedUsers' = (DOMAIN connectedUsers) \ {ev'.socket}
                /\ \A t \in DOMAIN connectedUsers' :
                     connectedUsers'[t] = connectedUsers[t] ]_vars

\* a socket without registry entry closed by itself while a registered
\* socket is open: nothing was emitted
C26_Witness ==
  /\ ev.type = "disconnect"
  /\ ev.reason = "transport close"
  /\ out = <<>>
  /\ \E t \in DOMAIN connectedUsers : sockets[t] = "open"


\* C27: a usernameChange whose new name is missing or blank is answered with
\* the invalid-username error alone and changes no registry entry; any other
\* usernameChange sets the username of the sending socket's own entry, if it
\* has one, to the trimmed new name and leaves the userId of that entry and
\* every other entry as they are.
C27_RenameFrame ==
  [][ ev'.type = "usernameChange"
        => IF Trim(ev'.name) = <<>>
           THEN /\ connectedUsers' = connectedUsers
                /\ out' = <<Emit(ev'.socket, "error", NoChat, "Invalid username")>>
           ELSE /\ DOMAIN connectedUsers' = DOMAIN connectedUsers
                /\ \A t \in DOMAIN connectedUsers :
                     IF t = ev'.socket
                     THEN /\ connectedUsers'[t].id = connectedUsers[t].id
                          /\ connectedUsers'[t].username = Trim(ev'.name)
                     ELSE connectedUsers'[t] = connectedUsers[t] ]_vars

\* a registered socket took the name "b" while the other registered socket
\* kept the name "a"
C27_Witness ==
  /\ ev.type = "usernameChange"
  /\ ev.socket \in DOMAIN connectedUsers
  /\ connectedUsers[ev.socket].username = Trim(PaddedB)
  /\ \E t \in DOMAIN connectedUsers \ {ev.socket} :
        connectedUsers[t].username = Trim(PaddedA)


\* C28: a successful join of userId u hands the joining socket, in one
\* availableGroups packet, exactly the stored groups that list u as a member
\* (no packet when there is none), and hands no other socket a group list.
C28_GroupListOnJoin ==
  (ev.type = "join" /\ ev.userId # NoUserId /\ Trim(ev.name) # <<>>)
    => LET mine == {c \in DOMAIN groupChats :
                      \E i \in DOMAIN groupChats[c].members :
                         groupChats[c].members[i].id = ev.userId}
       IN  /\ \A i \in DOMAIN out :
                out[i].event = "availableGroups"
                  => out[i].to = ev.socket /\ out[i].data = mine
           /\ Deliveries(out, "availableGroups", ev.socket)
                = IF mine = {} THEN 0 ELSE 1

\* a user registered while a group created by someone else lists them, and
\* was handed that group
C28_Witness ==
  /\ ev.type = "join" /\ NoError(out)
  /\ Deliveries(out, "availableGroups", ev.socket) = 1
  /\ \E c \in DOMAIN groupChats :
        /\ groupChats[c].createdBy # ev.userId
        /\ \E i \in DOMAIN out : out[i].event = "availableGroups" /\ c \in out[i].data


\* C29: getGroupInfo changes no stored group; for a stored group it answers
\* the asking socket with the record as stored and puts that socket into the
\* room of the group; asked right after the joinChat that stored the group,
\* the answer names the userId of that joinChat as createdBy and the valid
\* members of its payload, in order, as members.
C29_GroupInfo ==
  [][ ev'.type = "getGroupInfo"
        => /\ groupChats' = groupChats
           /\ ev'.chatId \in DOMAIN groupChats
                => /\ out' = <<Emit(ev'.socket, "groupInfo", ev'.chatId,
                                    groupChats[ev'.chatId])>>
                   /\ ev'.socket \in rooms'[ev'.chatId]
                   /\ (ev.type = "joinChat" /\ ev.group /\ NoError(out)
                       /\ ev.chatId = ev'.chatId)
                        => LET valid == SelectSeq(ev.members,
                                          LAMBDA m : Trim(m.username) # <<>>)
                               data == out'[1].data
                           IN  /\ data.createdBy = ev.userId
                               /\ Len(data.members) = Len(valid)
                               /\ \A i \in DOMAIN valid :
                                    data.members[i].id = valid[i].id ]_vars

\* B asked for the group of A and B that A created, was answered with
\* createdBy A and the members A, B and is in the room of the group
C29_Witness ==
  /\ ev.type = "getGroupInfo"
  /\ ev.socket \in DOMAIN connectedUsers
  /\ connectedUsers[ev.socket].id = "B"
  /\ \E t \in DOMAIN connectedUsers : connectedUsers[t].id = "A"
  /\ Len(out) = 1
  /\ out[1].event = "groupInfo" /\ out[1].to = ev.socket
  /\ out[1].data.createdBy = "A"
  /\ Len(out[1].data.members) = 2
  /\ out[1].data.members[1].id = "A" /\ out[1].data.members[2].id = "B"
  /\ ev.socket \in rooms[ev.chatId]


\* C30: a typing indicator is broadcast, never sent per member: with a chat
\* id it reaches, once each, exactly the open sockets in the room of that id
\* other than the sender, and for a stored 'group-' group the room then
\* holds the registered socket of every member; without chat id it reaches
\* every other open socket.  It carries the payload's username, or, when
\* that is missing, the registered name of the sender or else a non-blank
\* placeholder.
C30_TypingBroadcast ==
  ev.type = "typing"
    => LET to == IF ev.chatId = NoChat THEN Live \ {ev.socket}
                 ELSE (rooms[ev.chatId] \cap Live) \ {ev.socket}
           missing == Trim(ev.name) = <<>> \/ ev.name = UnknownUser
       IN  /\ \A t \in Sockets :
                Deliveries(out, "userTyping", t) = IF t \in to THEN 1 ELSE 0
           /\ \A i \in DOMAIN out : out[i].event = "userTyping"
           /\ (ev.chatId # NoChat /\ UsesUnicast(groupChats, ev.chatId))
                => MemberSockets(connectedUsers, groupChats, ev.chatId)
                     \subseteq rooms[ev.chatId]
           /\ \A i \in DOMAIN out :
                out[i].data.username =
                  IF ~missing THEN ev.name
                  ELSE IF ev.socket \in DOMAIN connectedUsers
                       THEN connectedUsers[ev.socket].username
                       ELSE <<"User", ev.socket>>

\* a typing indicator without username from a registered member reached the
\* other member of the stored group under the sender's registered name
C30_Witness ==
  /\ ev.type = "typing"
  /\ Trim(ev.name) = <<>>
  /\ ev.chatId \in DOMAIN groupChats
  /\ ev.socket \in MemberSockets(connectedUsers, groupChats, ev.chatId)
  /\ \E i \in DOMAIN out :
        /\ out[i].to \in MemberSockets(connectedUsers, groupChats, ev.chatId)
        /\ out[i].to # ev.socket
        /\ out[i].data.username = connectedUsers[ev.socket].username


\* the numbers of the messages of conversation c that socket t was sent by
\* the sender s, in the order of their arrival
Stream(rc, t, s, c) ==
  LET hit == SelectSeq(rc[t], LAMBDA m : m.from = s /\ m.chatId = c)
  IN  [i \in DOMAIN hit |-> hit[i].body]

SentTo(o, event) == {o[i].to : i \in {j \in DOMAIN o : o[j].event = event}}

\* C32: when a session sends the same message to a stored group twice in a
\* row, both sends reach the same set of sockets, and the sending socket is
\* not in it.
C32_SameRecipientsTwice ==
  [][ ( /\ ev.type = "message"
        /\ ev' = ev
        /\ ev.chatId \in DOMAIN groupChats
        /\ chatRooms' # chatRooms )
        => /\ SentTo(out', "message") = SentTo(out, "message")
           /\ ev'.socket \notin SentTo(out', "message") ]_vars

\* C33: every accepted group joinChat schedules exactly one re-check and no
\* other event schedules any; a firing re-check schedules none, sends
\* nothing and does no more than one pass that subscribes connected sockets
\* of its members; and once only re-checks are left to run, the pending
\* re-checks run out, also while a member is not connected.
C33_RecheckBounded ==
  /\ [][ /\ Len(timers') = Len(timers)
                           + (IF ev'.type = "joinChat" /\ ev'.group /\ NoError(out')
                              THEN 1 ELSE 0)
                           - (IF ev'.type = "timer" THEN 1 ELSE 0)
         /\ ev'.type = "timer"
              => /\ timers # <<>> /\ timers' = Tail(timers)
                 /\ out' = <<>>
                 /\ <<sockets, connectedUsers, chatRooms, groupChats>>'
                      = <<sockets, connectedUsers, chatRooms, groupChats>>
                 /\ \A c \in ChatIds :
                      /\ rooms[c] \subseteq rooms'[c]
                      /\ rooms'[c] \ rooms[c] \subseteq
                           IF c = ev'.chatId
                           THEN {x \in DOMAIN connectedUsers :
                                   \E i \in DOMAIN Head(timers).members :
                                      Head(timers).members[i].id = connectedUsers[x].id}
                           ELSE {} ]_vars
  /\ (<>[][TimerFire]_vars) => <>[](timers = <<>>)

\* the last pending re-check has fired for a group one of whose members is
\* not connected
C33_Witness ==
  /\ ev.type = "timer"
  /\ timers = <<>>
  /\ ev.chatId \in DOMAIN groupChats
  /\ \E i \in DOMAIN groupChats[ev.chatId].members :
        FindSocketId(connectedUsers, groupChats[ev.chatId].members[i].id) = NoSocket
  /\ rooms[ev.chatId] # {}


\* C34: every socket in the room of any chat id has an entry in the
\* registry: a connection that never joined, or whose entry was removed by
\* a disconnect or a takeover, is in no room.
C34_SubscribersRegistered ==
  \A c \in ChatIds : rooms[c] \subseteq DOMAIN connectedUsers


\* C35: the id of a direct chat does not depend on who opens it: the id a
\* client computes for its user and the target is the id the target's
\* client computes for the target and that user.
C35_DirectIdSymmetric ==
  (ev.type = "joinChat" /\ ev.target # NoUserId)
    => ev.chatId = DirectId(ev.target, ev.userId)

\* B opened the direct chat with A, whose socket was already in its room
C35_Witness ==
  /\ ev.type = "joinChat"
  /\ ev.userId = "B"
  /\ ev.target = "A"
  /\ ev.chatId = DirectAB
  /\ \E t \in rooms[DirectAB] \ {ev.socket} :
        t \in DOMAIN connectedUsers /\ connectedUsers[t].id = "A"


\* C38: after the joinChat of a client that opened the direct chat of its
\* user with another, the connected sockets of both users are in the room of
\* that chat, also for user ids that contain a '-'.
C38_BothParticipantsSubscribed ==
  (ev.type = "joinChat" /\ ev.target # NoUserId)
    => \A t \in DOMAIN connectedUsers :
         connectedUsers[t].id \in {ev.userId, ev.target} => t \in rooms[ev.chatId]


\* C36: a joinChat without group payload that repeats the event before it
\* leaves the chatRooms records and the rooms as the first one left them,
\* and no joinChat alters a chatRooms record that exists: its kind, its name
\* and its stored messages stay.
C36_JoinIdempotent ==
  [][ ev'.type = "joinChat"
        => /\ (ev' = ev /\ ~ev.group) => (chatRooms' = chatRooms /\ rooms' = rooms)
           /\ ev'.chatId \in DOMAIN chatRooms
                => chatRooms'[ev'.chatId] = chatRooms[ev'.chatId] ]_vars

\* a joinChat without group payload came for a chat whose record was made
\* by a group joinChat and holds a message
C36_Witness ==
  /\ ev.type = "joinChat"
  /\ ~ev.group
  /\ ev.chatId \in DOMAIN chatRooms
  /\ chatRooms[ev.chatId].isGroup
  /\ chatRooms[ev.chatId].messages # <<>>
  /\ ev.socket \in rooms[ev.chatId]


\* C37: a re-check that fires for a stored group subscribes only sockets of
\* users in the member list the group has then: a user whom a later
\* joinChat dropped from the list is not subscribed by the re-check of an
\* earlier one.
C37_RecheckUsesCurrentMembers ==
  [][ (ev'.type = "timer" /\ ev'.chatId \in DOMAIN groupChats)
        => rooms'[ev'.chatId] \ rooms[ev'.chatId]
             \subseteq MemberSockets(connectedUsers, groupChats, ev'.chatId) ]_vars


\* C39: a typing indicator for a stored group reaches only sockets that are
\* registered for a user in the member list of the group.
C39_TypingOnlyToMembers ==
  (ev.type = "typing" /\ ev.chatId \in DOMAIN groupChats)
    => \A i \in DOMAIN out :
         out[i].event = "userTyping"
           => out[i].to \in MemberSockets(connectedUsers, groupChats, ev.chatId)


\* C40: every entry of the registry is kept under the id of an open socket
\* and holds a userId and a username that is not blank and has no
\* surrounding whitespace; so the onlineUsers list shows every entry, and
\* the disconnect of a registered socket is always announced to the others.
C40_RegistryEntriesValid ==
  [][ /\ \A s \in DOMAIN connectedUsers' :
           /\ sockets'[s] = "open"
           /\ connectedUsers'[s].id # NoUserId
           /\ Trim(connectedUsers'[s].username) # <<>>
           /\ Trim(connectedUsers'[s].username) = connectedUsers'[s].username
           /\ \E x \in OnlineUsers(connectedUsers') :
                 x.id = connectedUsers'[s].id
                   /\ x.username = connectedUsers'[s].username
      /\ (ev'.type = "disconnect" /\ ev'.socket \in DOMAIN connectedUsers)
           => \A t \in Sockets :
                 Deliveries(out', "userLeft", t)
                   = IF sockets'[t] = "open" THEN 1 ELSE 0 ]_vars

\* a socket registered under a name that came padded has left, and the
\* other open socket was told its trimmed name
C40_Witness ==
  /\ ev.type = "disconnect"
  /\ \E t \in Live :
        Deliveries(out, "userLeft", t) = 1 /\ Deliveries(out, "onlineUsers", t) = 1
  /\ \A i \in DOMAIN out : out[i].event = "userLeft" => out[i].data = NameA


====
